---- MODULE Spec2Model ----
(***************************************************************************)
(* Model of libksm_preload.c: the LD_PRELOAD layer that wraps calloc,      *)
(* malloc, mmap, mremap and realloc, resolves the real primitives lazily   *)
(* on first use and marks large anonymous regions MADV_MERGEABLE.          *)
(*                                                                         *)
(* Shared memory (globals.*, setup_done) is written without atomics, so    *)
(* every thread owns a store buffer whose entries reach memory one at a    *)
(* time and in any order; __sync_synchronize() and the mutex operations    *)
(* drain the buffer of the thread that executes them.                      *)
(***************************************************************************)
EXTENDS Integers, Sequences, FiniteSets, TLC

(***************************************************************************)
(* Bounds of the model.                                                    *)
(***************************************************************************)
\* number of threads of the process
NThreads == 2
\* top-level calls of hooked primitives made by the whole process
MaxCalls == 2
\* reentrant calls made from inside setup()
MaxReentry == 1
\* scaled widths of size_t/uintptr_t, long and int (bits)
SIZE_BITS == 24
LONG_BITS == 22
INT_BITS == 20

(***************************************************************************)
(* Program and platform constants.                                         *)
(***************************************************************************)
\* <sys/mman.h>
MAP_SHARED == 1
MAP_PRIVATE == 2
MAP_ANONYMOUS == 32
MAP_GROWSDOWN == 256
MAP_STACK == 131072
MREMAP_MAYMOVE == 1
MREMAP_FIXED == 2
\* the build-time values of globals.page_size and globals.merge_threshold
DEFAULT_PAGE_SIZE == 4096
DEFAULT_MERGE_THRESHOLD == 4096 * 8
\* the value merge_if_profitable() takes for "flags are unknown"
FLAGS_UNKNOWN == -1

SIZE_MOD == 2 ^ SIZE_BITS
SIZE_MAX == SIZE_MOD - 1
LONG_MAX == 2 ^ (LONG_BITS - 1) - 1
INT_MAX == 2 ^ (INT_BITS - 1) - 1
NULL == 0
\* (void *) -1
MAP_FAILED == SIZE_MAX

Threads == 1 .. NThreads
Symbols == <<"calloc", "malloc", "mmap", "mremap", "realloc">>
SymbolSet == {Symbols[i] : i \in 1 .. Len(Symbols)}

\* flags & bit, for a mask of one bit, on a two's complement int
HasFlag(flags, bit) == (flags \div bit) % 2 = 1

(***************************************************************************)
(* globals: the build-time initialiser, and what dlsym(RTLD_NEXT, .) finds *)
(***************************************************************************)
NULL_FN == "NULL"
DefaultGlobals ==
    [calloc |-> "__libc_calloc",
     malloc |-> "__libc_malloc",
     mmap |-> "__mmap",
     mremap |-> NULL_FN,
     realloc |-> "__libc_realloc",
     page_size |-> DEFAULT_PAGE_SIZE,
     merge_threshold |-> DEFAULT_MERGE_THRESHOLD]

NextSymbol ==
    [calloc |-> "next_calloc",
     malloc |-> "next_malloc",
     mmap |-> "next_mmap",
     mremap |-> "next_mremap",
     realloc |-> "next_realloc"]

(***************************************************************************)
(* get_int_from_environment: strtol(var_string, &end, 10) and its checks.  *)
(* A string is a sequence of one-character strings; NoEnv is getenv()'s    *)
(* NULL.                                                                   *)
(***************************************************************************)
NoEnv == <<"\\0">>
Digits == <<"0", "1", "2", "3", "4", "5", "6", "7", "8", "9">>
IsDigit(c) == \E i \in 1 .. 10 : Digits[i] = c
DigitVal(c) == (CHOOSE i \in 1 .. 10 : Digits[i] = c) - 1
IsSpace(c) == c \in {" ", "\t", "\n"}

RECURSIVE SkipSpace(_, _)
SkipSpace(s, i) ==
    IF i <= Len(s) /\ IsSpace(s[i]) THEN SkipSpace(s, i + 1) ELSE i

\* accumulates digits from position i; saturates at LONG_MAX + 1 (the sign
\* decides later between LONG_MAX and LONG_MIN)
RECURSIVE StrtolDigits(_, _, _)
StrtolDigits(s, i, acc) ==
    IF i <= Len(s) /\ IsDigit(s[i])
    THEN LET next == acc * 10 + DigitVal(s[i])
         IN StrtolDigits(s, i + 1, IF next > LONG_MAX THEN LONG_MAX + 1 ELSE next)
    ELSE [end |-> i, acc |-> acc]

\* strtol: [value, end]; end is the index of the first character not consumed
\* (Len(s) + 1 stands for the terminating '\0'); no digits: value 0, end = 1
strtol(s) ==
    LET i0 == SkipSpace(s, 1)
        neg == i0 <= Len(s) /\ s[i0] = "-"
        i1 == IF i0 <= Len(s) /\ s[i0] \in {"-", "+"} THEN i0 + 1 ELSE i0
        d == StrtolDigits(s, i1, 0)
    IN IF d.end = i1
       THEN [value |-> 0, end |-> 1]
       ELSE [value |-> IF neg
                       THEN -d.acc
                       ELSE IF d.acc > LONG_MAX THEN LONG_MAX ELSE d.acc,
             end |-> d.end]

get_int_from_environment(var_string) ==
    IF var_string = NoEnv
    THEN -1
    ELSE LET r == strtol(var_string)
         IN IF r.end <= Len(var_string) \/ r.value < 0
            THEN -1
            ELSE IF r.value > INT_MAX THEN INT_MAX ELSE r.value

(***************************************************************************)
(* merge_if_profitable: the sequence of madvise() calls it issues; ret is   *)
(* what madvise() returns, which the function only logs.                   *)
(***************************************************************************)
\* (a filter that forgets MAP_STACK)
FlagsAcceptable_no_stack(flags) ==
    flags = FLAGS_UNKNOWN
    \/ (HasFlag(flags, MAP_PRIVATE) /\ HasFlag(flags, MAP_ANONYMOUS)
        /\ ~HasFlag(flags, MAP_GROWSDOWN))

FlagsAcceptable(flags) ==
    flags = FLAGS_UNKNOWN
    \/ (HasFlag(flags, MAP_PRIVATE) /\ HasFlag(flags, MAP_ANONYMOUS)
        /\ ~HasFlag(flags, MAP_GROWSDOWN) /\ ~HasFlag(flags, MAP_STACK))

PageAddress(address, page_size) == (address \div page_size) * page_size

NewLength(address, length, page_size) ==
    (length + (address - PageAddress(address, page_size))) % SIZE_MOD

BelowThreshold(new_length, merge_threshold) ==
    new_length <= merge_threshold % SIZE_MOD

ShouldReturnEarly(address, new_length, merge_threshold) ==
    BelowThreshold(new_length, merge_threshold) \/ address = NULL

merge_if_profitable(address, length, flags, page_size, merge_threshold, ret) ==
    LET page_address == PageAddress(address, page_size)
        new_length == NewLength(address, length, page_size)
    IN IF ShouldReturnEarly(address, new_length, merge_threshold)
       THEN <<>>
       ELSE IF FlagsAcceptable(flags)
            THEN <<[addr |-> page_address, length |-> new_length, ret |-> ret]>>
            ELSE <<>>

(***************************************************************************)
(* The callers: the calls a program makes and what the real primitives,    *)
(* which are opaque, may answer.                                           *)
(***************************************************************************)
CallocCalls(Ns, Sizes) ==
    {[fn |-> "calloc", nmemb |-> n, size |-> s] : n \in Ns, s \in Sizes}
MallocCalls(Sizes) ==
    {[fn |-> "malloc", size |-> s] : s \in Sizes}
MmapCalls(Addrs, Lens, Flags, Fds) ==
    {[fn |-> "mmap", addr |-> a, length |-> l, prot |-> 3, flags |-> f,
      fd |-> d, offset |-> 0] : a \in Addrs, l \in Lens, f \in Flags, d \in Fds}
\* va is the variadic tail the caller supplied; with MREMAP_FIXED the caller
\* supplies the target address
MremapCalls(Addrs, Lens, Flags, Targets) ==
    {[fn |-> "mremap", old_address |-> a, old_length |-> 4096, new_length |-> l,
      flags |-> f, va |-> v] :
        a \in Addrs, l \in Lens, f \in Flags,
        v \in {<<>>} \cup {<<x>> : x \in Targets}}
ReallocCalls(Addrs, Sizes) ==
    {[fn |-> "realloc", addr |-> a, size |-> s] : a \in Addrs, s \in Sizes}

WellFormed(c) ==
    c.fn = "mremap" /\ HasFlag(c.flags, MREMAP_FIXED) => Len(c.va) = 1

\* the byte length of the region a successful call returns
RegionBytes(c) ==
    CASE c.fn = "calloc" -> c.nmemb * c.size
      [] c.fn = "malloc" -> c.size
      [] c.fn = "mmap" -> c.length
      [] c.fn = "mremap" -> c.new_length
      [] c.fn = "realloc" -> c.size

FailureResult(c) == IF c.fn \in {"mmap", "mremap"} THEN MAP_FAILED ELSE NULL

\* what the kernel accepts: the mapping type (the low four bits) is
\* MAP_SHARED, MAP_PRIVATE or, on kernels that have MAP_SHARED_VALIDATE, both
\* bits, which is a shared mapping; never neither. An anonymous mapping needs
\* no descriptor, a file mapping needs one
MmapAccepts(c) ==
    /\ c.length > 0
    /\ c.flags % 16 \in {MAP_SHARED, MAP_PRIVATE, MAP_SHARED + MAP_PRIVATE}
    /\ (HasFlag(c.flags, MAP_ANONYMOUS) \/ c.fd >= 0)

CanSucceed(c) ==
    CASE c.fn = "mmap" -> MmapAccepts(c)
      [] c.fn = "mremap" -> c.new_length > 0
      [] OTHER -> TRUE

\* the results the real primitive may return for call c: its failure value,
\* or the address of a region that lies inside the address space
\* (As.heap, As.map: the addresses the allocator and the kernel hand out)
PrimResults(c, As) ==
    {FailureResult(c)} \cup
    {a \in (IF c.fn \in {"mmap", "mremap"} THEN As.map ELSE As.heap) :
        CanSucceed(c) /\ a + RegionBytes(c) <= SIZE_MOD}

(***************************************************************************)
(* State.                                                                  *)
(***************************************************************************)
VARIABLES
    globals,      \* the struct globals, as it is in memory
    setup_done,   \* lazily_setup's static flag, as it is in memory
    mutex,        \* lazily_setup's static mutex: its owner, 0 when free
    sb,           \* sb[t]: stores of thread t that have not reached memory
    stack,        \* stack[t]: the frames of the hooked calls thread t is in
    ncalls,       \* top-level calls made so far
    nreentry,     \* reentrant calls made so far
    setup_calls,  \* how many times setup() has been entered
    proc          \* "running", "exited" (error(1, ...)), "crashed"

vars == <<globals, setup_done, mutex, sb, stack, ncalls, nreentry,
          setup_calls, proc>>

\* errno: what the caller had in it, what a failing primitive leaves in it
\* and what a failing madvise() leaves in it
ERRNO_OF_CALLER == "errno of the caller"
ERRNO_OF_PRIMITIVE == "ENOMEM"
ERRNO_OF_MADVISE == "EINVAL"

NoStores == [l \in {} |-> 0]
UnsetLocals == [s \in SymbolSet |-> "unset"]

\* the frame of a call that has just entered its wrapper. path is how the
\* call left lazily_setup(): "fast" (setup_done seen at the first look),
\* "edeadlk" (the recursive call), "recheck" (setup_done seen under the
\* mutex) or "setup" (it ran setup()); var_string is what getenv() returned
\* to get_int_from_environment(); va_read counts the va_arg() reads of
\* mremap(); passed, ext and ext_res are the arguments, the callee and the
\* result of the call through globals.ext_X; errno is the thread's errno
NewFrame(c) ==
    [call |-> c, pc |-> "lazily_setup", path |-> "", sym |-> 0,
     dl |-> UnsetLocals, var_string |-> NoEnv, va_read |-> 0,
     errno |-> ERRNO_OF_CALLER,
     ext |-> "", passed |-> <<>>, ndeleg |-> 0, ext_res |-> 0, res |-> 0,
     advice |-> <<>>]

Init ==
    /\ globals = DefaultGlobals
    /\ setup_done = FALSE
    /\ mutex = 0
    /\ sb = [t \in Threads |-> NoStores]
    /\ stack = [t \in Threads |-> <<>>]
    /\ ncalls = 0
    /\ nreentry = 0
    /\ setup_calls = 0
    /\ proc = "running"

Depth(t) == Len(stack[t])
Top(t) == stack[t][Len(stack[t])]
At(t, pc) == proc = "running" /\ Depth(t) > 0 /\ Top(t).pc = pc
SetTop(t, f) == stack' = [stack EXCEPT ![t] = [@ EXCEPT ![Len(@)] = f]]

(***************************************************************************)
(* Memory.                                                                 *)
(***************************************************************************)
Mem(loc) == IF loc = "setup_done" THEN setup_done ELSE globals[loc]
\* thread t reads its own pending store first
Read(t, loc) == IF loc \in DOMAIN sb[t] THEN sb[t][loc] ELSE Mem(loc)
\* thread t issues stores (a function from locations to values)
Store(t, stores) == sb' = [sb EXCEPT ![t] = stores @@ @]
\* memory after the stores of buf have reached it
GlobalsAfter(buf) ==
    [l \in DOMAIN globals |-> IF l \in DOMAIN buf THEN buf[l] ELSE globals[l]]
DoneAfter(buf) ==
    IF "setup_done" \in DOMAIN buf THEN buf["setup_done"] ELSE setup_done
\* a full barrier: every pending store of t reaches memory
Drain(t) ==
    /\ globals' = GlobalsAfter(sb[t])
    /\ setup_done' = DoneAfter(sb[t])
    /\ sb' = [sb EXCEPT ![t] = NoStores]

\* one pending store of thread t reaches memory; any one, in any order
Flush(t) ==
    /\ proc = "running"
    /\ \E loc \in DOMAIN sb[t] :
        LET one == [l \in {loc} |-> sb[t][l]]
        IN /\ globals' = GlobalsAfter(one)
           /\ setup_done' = DoneAfter(one)
           /\ sb' = [sb EXCEPT ![t] = [l \in DOMAIN @ \ {loc} |-> @[l]]]
    /\ UNCHANGED <<mutex, stack, ncalls, nreentry, setup_calls, proc>>

(***************************************************************************)
(* A thread enters a wrapper.                                              *)
(***************************************************************************)
\* a thread that is in no hooked call calls calloc, malloc, mmap, mremap or
\* realloc; the threads are numbered in the order of their first calls, so
\* the first call of thread t is at best the t-th call of the process
Call(t, c) ==
    /\ proc = "running"
    /\ Depth(t) = 0
    /\ ncalls < MaxCalls
    /\ t <= ncalls + 1
    /\ stack' = [stack EXCEPT ![t] = <<NewFrame(c)>>]
    /\ ncalls' = ncalls + 1
    /\ UNCHANGED <<globals, setup_done, mutex, sb, nreentry, setup_calls, proc>>

\* the library calls setup() is inside of (dlsym, sysconf, getenv, error)
ExternalCallPcs == {"xdlsym", "sysconf", "getenv", "error"}

\* the library call setup() is inside of allocates: the same thread enters a
\* wrapper again
Reenter(t, c) ==
    /\ proc = "running"
    /\ Depth(t) = 1
    /\ Top(t).pc \in ExternalCallPcs
    /\ nreentry < MaxReentry
    /\ stack' = [stack EXCEPT ![t] = Append(@, NewFrame(c))]
    /\ nreentry' = nreentry + 1
    /\ UNCHANGED <<globals, setup_done, mutex, sb, ncalls, setup_calls, proc>>

(***************************************************************************)
(* lazily_setup                                                            *)
(***************************************************************************)
\* (a lazily_setup without the fast path)
lazily_setup_check_locking(t) ==
    /\ At(t, "lazily_setup")
    /\ Drain(t)
    /\ SetTop(t, [Top(t) EXCEPT !.pc = "lock"])
    /\ UNCHANGED <<mutex, ncalls, nreentry, setup_calls, proc>>

\* __sync_synchronize(); if (setup_done) return;
lazily_setup_check(t) ==
    /\ At(t, "lazily_setup")
    /\ Drain(t)
    /\ SetTop(t, IF setup_done'
                 THEN [Top(t) EXCEPT !.path = "fast", !.pc = "call_ext"]
                 ELSE [Top(t) EXCEPT !.pc = "lock"])
    /\ UNCHANGED <<mutex, ncalls, nreentry, setup_calls, proc>>

\* (a lazily_setup that does not test for EDEADLK and goes on as the owner)
lazily_setup_lock_unchecked(t) ==
    /\ At(t, "lock")
    /\ mutex \in {0, t}
    /\ mutex' = t
    /\ SetTop(t, [Top(t) EXCEPT !.pc = "recheck"])
    /\ UNCHANGED <<globals, setup_done, sb, ncalls, nreentry, setup_calls, proc>>

\* pthread_mutex_lock(&mutex) on an error-checking mutex: EDEADLK when the
\* caller owns it, the lock when it is free, and the caller waits otherwise
lazily_setup_lock(t) ==
    /\ At(t, "lock")
    /\ \/ /\ mutex = t
          /\ SetTop(t, [Top(t) EXCEPT !.path = "edeadlk", !.pc = "call_ext"])
          /\ UNCHANGED mutex
       \/ /\ mutex = 0
          /\ mutex' = t
          /\ SetTop(t, [Top(t) EXCEPT !.pc = "recheck"])
    /\ UNCHANGED <<globals, setup_done, sb, ncalls, nreentry, setup_calls, proc>>

\* (a lazily_setup that does not look again under the mutex)
setup_needed_unchecked(t) == TRUE

\* !setup_done, as the owner of the mutex reads it
setup_needed(t) == ~Read(t, "setup_done")

\* if (!setup_done) { setup(); ... }: the second look, under the mutex
lazily_setup_recheck(t) ==
    /\ At(t, "recheck")
    /\ IF setup_needed(t)
       THEN /\ SetTop(t, [Top(t) EXCEPT !.path = "setup", !.pc = "xdlsym",
                                        !.sym = 1])
            /\ setup_calls' = setup_calls + 1
       ELSE /\ SetTop(t, [Top(t) EXCEPT !.path = "recheck", !.pc = "unlock"])
            /\ UNCHANGED setup_calls
    /\ UNCHANGED <<globals, setup_done, mutex, sb, ncalls, nreentry, proc>>

\* what setup() does after a symbol resolved: on to the next xdlsym, or to
\* sysconf after the fifth
AfterResolved(f, found) ==
    [f EXCEPT !.dl = [@ EXCEPT ![Symbols[f.sym]] = found],
              !.sym = IF f.sym = Len(Symbols) THEN 0 ELSE f.sym + 1,
              !.pc = IF f.sym = Len(Symbols) THEN "sysconf" ELSE "xdlsym"]

\* (a setup that stores each symbol into globals as soon as it resolved)
xdlsym_activating(t) ==
    /\ At(t, "xdlsym")
    /\ \E found \in {NextSymbol[Symbols[Top(t).sym]], NULL_FN} :
        IF found # NULL_FN
        THEN /\ SetTop(t, AfterResolved(Top(t), found))
             /\ Store(t, [l \in {Symbols[Top(t).sym]} |-> found])
        ELSE /\ SetTop(t, [Top(t) EXCEPT !.pc = "error"])
             /\ UNCHANGED sb
    /\ UNCHANGED <<globals, setup_done, mutex, ncalls, nreentry,
                   setup_calls, proc>>

\* xdlsym(RTLD_NEXT, symbol): dlsym finds the symbol or returns NULL, and
\* then xdlsym calls error(1, ...)
xdlsym(t) ==
    /\ At(t, "xdlsym")
    /\ \E found \in {NextSymbol[Symbols[Top(t).sym]], NULL_FN} :
        SetTop(t, IF found # NULL_FN
                  THEN AfterResolved(Top(t), found)
                  ELSE [Top(t) EXCEPT !.pc = "error"])
    /\ UNCHANGED <<globals, setup_done, mutex, sb, ncalls, nreentry,
                   setup_calls, proc>>

\* error(1, 0, ...): the process exits with status 1
xdlsym_error(t) ==
    /\ At(t, "error")
    /\ proc' = "exited"
    /\ UNCHANGED <<globals, setup_done, mutex, sb, stack, ncalls, nreentry,
                   setup_calls>>

\* globals.page_size = sysconf(_SC_PAGESIZE)
setup_sysconf(t, page_size) ==
    /\ At(t, "sysconf")
    /\ Store(t, [l \in {"page_size"} |-> page_size])
    /\ SetTop(t, [Top(t) EXCEPT !.pc = "getenv"])
    /\ UNCHANGED <<globals, setup_done, mutex, ncalls, nreentry, setup_calls,
                   proc>>

\* the stores of "if (env_merge_treshold >= 0) globals.merge_threshold = ..."
ThresholdStores(env_merge_treshold) ==
    IF env_merge_treshold >= 0
    THEN [l \in {"merge_threshold"} |-> env_merge_treshold]
    ELSE NoStores

\* env_merge_treshold = get_int_from_environment(...) and the store guarded
\* by it; var_string is what getenv() returns
setup_getenv(t, var_string) ==
    /\ At(t, "getenv")
    /\ Store(t, ThresholdStores(get_int_from_environment(var_string)))
    /\ SetTop(t, [Top(t) EXCEPT !.var_string = var_string, !.pc = "activate"])
    /\ UNCHANGED <<globals, setup_done, mutex, ncalls, nreentry, setup_calls,
                   proc>>

\* the five stores "globals.ext_calloc = dl_calloc; ..." of setup()
ActivateStores(dl) == [s \in SymbolSet |-> dl[s]]

\* "Activates the symbols from the next library": five plain stores, then
\* setup() returns
setup_activate(t) ==
    /\ At(t, "activate")
    /\ Store(t, ActivateStores(Top(t).dl))
    /\ SetTop(t, [Top(t) EXCEPT !.pc = "set_done"])
    /\ UNCHANGED <<globals, setup_done, mutex, ncalls, nreentry, setup_calls,
                   proc>>

\* setup_done = true
lazily_setup_set_done(t) ==
    /\ At(t, "set_done")
    /\ Store(t, [l \in {"setup_done"} |-> TRUE])
    /\ SetTop(t, [Top(t) EXCEPT !.pc = "unlock"])
    /\ UNCHANGED <<globals, setup_done, mutex, ncalls, nreentry, setup_calls,
                   proc>>

\* (an unlock that clears setup_done for the next caller)
lazily_setup_unlock_clearing(t) ==
    /\ At(t, "unlock")
    /\ globals' = GlobalsAfter(sb[t])
    /\ setup_done' = FALSE
    /\ sb' = [sb EXCEPT ![t] = NoStores]
    /\ mutex' = IF mutex = t THEN 0 ELSE mutex
    /\ SetTop(t, [Top(t) EXCEPT !.pc = "call_ext"])
    /\ UNCHANGED <<ncalls, nreentry, setup_calls, proc>>

\* pthread_mutex_unlock(&mutex): a release, the owner's stores are in memory
\* when the mutex is seen free
lazily_setup_unlock(t) ==
    /\ At(t, "unlock")
    /\ Drain(t)
    /\ mutex' = IF mutex = t THEN 0 ELSE mutex
    /\ SetTop(t, [Top(t) EXCEPT !.pc = "call_ext"])
    /\ UNCHANGED <<ncalls, nreentry, setup_calls, proc>>

(***************************************************************************)
(* The wrappers: what each passes to the real primitive and to             *)
(* merge_if_profitable.                                                    *)
(***************************************************************************)
\* (a wrapper that passes its arguments in the wrong order)
calloc_swapped(c) ==
    [args |-> <<c.size, c.nmemb>>, length |-> c.size, flags |-> FLAGS_UNKNOWN]

calloc(c) ==
    [args |-> <<c.nmemb, c.size>>, length |-> c.size, flags |-> FLAGS_UNKNOWN]

malloc(c) ==
    [args |-> <<c.size>>, length |-> c.size, flags |-> FLAGS_UNKNOWN]

mmap(c) ==
    [args |-> <<c.addr, c.length, c.prot, c.flags, c.fd, c.offset>>,
     length |-> c.length, flags |-> c.flags]

\* (a wrapper that never looks at the variadic tail)
mremap_four_arguments(c) ==
    [args |-> <<c.old_address, c.old_length, c.new_length, c.flags>>,
     va_read |-> 0,
     length |-> c.new_length, flags |-> FLAGS_UNKNOWN]

\* with MREMAP_FIXED the target address is read from the variadic tail by
\* one va_arg(); va_read is the number of va_arg() reads
mremap(c) ==
    [args |-> IF HasFlag(c.flags, MREMAP_FIXED)
              THEN <<c.old_address, c.old_length, c.new_length, c.flags, c.va[1]>>
              ELSE <<c.old_address, c.old_length, c.new_length, c.flags>>,
     va_read |-> IF HasFlag(c.flags, MREMAP_FIXED) THEN 1 ELSE 0,
     length |-> c.new_length, flags |-> FLAGS_UNKNOWN]

realloc(c) ==
    [args |-> <<c.addr, c.size>>, length |-> c.size, flags |-> FLAGS_UNKNOWN]

Wrapper(c) ==
    CASE c.fn = "calloc" -> calloc(c)
      [] c.fn = "malloc" -> malloc(c)
      [] c.fn = "mmap" -> mmap(c)
      [] c.fn = "mremap" -> mremap(c)
      [] c.fn = "realloc" -> realloc(c)

\* the frame after "res = globals.ext_X (...)" returned ext_res
AfterExt(f, ext, ext_res) ==
    [f EXCEPT !.ext = ext, !.passed = Wrapper(f.call).args,
              !.va_read = IF f.call.fn = "mremap"
                          THEN Wrapper(f.call).va_read ELSE 0,
              !.ndeleg = @ + 1, !.ext_res = ext_res, !.res = ext_res,
              !.errno = IF ext_res = FailureResult(f.call)
                        THEN ERRNO_OF_PRIMITIVE ELSE @,
              !.pc = "merge"]

\* void *res = globals.ext_X (...): the pointer is read from globals and
\* called; a call through a null pointer ends the process
call_ext(t, As) ==
    /\ At(t, "call_ext")
    /\ LET ext == Read(t, Top(t).call.fn)
       IN IF ext = NULL_FN
          THEN /\ proc' = "crashed"
               /\ UNCHANGED stack
          ELSE /\ \E r \in PrimResults(Top(t).call, As) :
                    SetTop(t, AfterExt(Top(t), ext, r))
               /\ UNCHANGED proc
    /\ UNCHANGED <<globals, setup_done, mutex, sb, ncalls, nreentry, setup_calls>>

\* the frame after merge_if_profitable() issued the madvise() calls advice;
\* a madvise() that fails sets errno
AfterMerge(f, advice) ==
    [f EXCEPT !.advice = advice, !.pc = "return",
              !.errno = IF advice # <<>> /\ advice[1].ret # 0
                        THEN ERRNO_OF_MADVISE ELSE @]

\* merge_if_profitable (res, length, flags), reading globals.page_size and
\* globals.merge_threshold; madvise() returns one of As.madvise
merge(t, As) ==
    /\ At(t, "merge")
    /\ \E ret \in As.madvise :
        SetTop(t, AfterMerge(Top(t),
            merge_if_profitable(Top(t).res, Wrapper(Top(t).call).length,
                                Wrapper(Top(t).call).flags,
                                Read(t, "page_size"),
                                Read(t, "merge_threshold"), ret)))
    /\ UNCHANGED <<globals, setup_done, mutex, sb, ncalls, nreentry,
                   setup_calls, proc>>

\* return res;
Return(t) ==
    /\ At(t, "return")
    /\ stack' = [stack EXCEPT ![t] = SubSeq(@, 1, Len(@) - 1)]
    /\ UNCHANGED <<globals, setup_done, mutex, sb, ncalls, nreentry,
                   setup_calls, proc>>

(***************************************************************************)
(* The specifications.                                                     *)
(***************************************************************************)
\* one step of thread t, which makes the calls Cs; Rs are the calls the
\* library makes from inside setup(), getenv() answers one of Es, sysconf()
\* one of Ps, and As is what the primitives and the kernel may answer
ThreadStep(t, Cs, Rs, Es, Ps, As) ==
    \/ \E c \in Cs : Call(t, c)
    \/ \E c \in Rs : Reenter(t, c)
    \/ lazily_setup_check(t)
    \/ lazily_setup_lock(t)
    \/ lazily_setup_recheck(t)
    \/ xdlsym(t)
    \/ xdlsym_error(t)
    \/ \E p \in Ps : setup_sysconf(t, p)
    \/ \E e \in Es : setup_getenv(t, e)
    \/ setup_activate(t)
    \/ lazily_setup_set_done(t)
    \/ lazily_setup_unlock(t)
    \/ call_ext(t, As)
    \/ merge(t, As)
    \/ Return(t)

\* The concurrent specification: every thread calls malloc and mremap with a
\* length above every threshold; the page size is 16384, the threshold is
\* configured to 100.
BigLength == DEFAULT_MERGE_THRESHOLD + 4096
ThreadCalls ==
    MallocCalls({BigLength})
    \cup MremapCalls({65536}, {BigLength}, {MREMAP_MAYMOVE}, {})
\* what a library call made by setup() allocates
ThreadLibraryCalls == ThreadCalls
ThreadEnvs == {<<"1", "0", "0">>}
ThreadPageSizes == {16384}
\* the allocator hands out an address inside a page, the kernel an aligned
\* one, and madvise() succeeds
ThreadAddrs == [heap |-> {16384 + 100}, map |-> {65536}, madvise |-> {0}]

Next ==
    \E t \in Threads :
        \/ ThreadStep(t, ThreadCalls, ThreadLibraryCalls, ThreadEnvs,
                      ThreadPageSizes, ThreadAddrs)
        \/ Flush(t)

Spec == Init /\ [][Next]_vars

\* The concurrent specification under a fair scheduler: a thread that is
\* inside a call and can take a step takes one (a thread that waits for the
\* mutex can take none), and every store reaches memory.
Running(t) ==
    ThreadStep(t, {}, {}, ThreadEnvs, ThreadPageSizes, ThreadAddrs)

SpecLive ==
    Spec /\ \A t \in Threads : WF_vars(Running(t)) /\ WF_vars(Flush(t))

\* The single-threaded specification: the only thread of the process makes
\* calls over the whole range of lengths, flags, thresholds and page sizes.
\* No other thread reads memory, so when a store leaves the buffer is not
\* part of this specification.
PolicyLengths ==
    {0, 1, 100, 101, 5000,
     DEFAULT_MERGE_THRESHOLD - 100, DEFAULT_MERGE_THRESHOLD - 99,
     DEFAULT_MERGE_THRESHOLD, DEFAULT_MERGE_THRESHOLD + 1, SIZE_MAX}
PolicyMmapFlags ==
    {MAP_PRIVATE + MAP_ANONYMOUS,
     MAP_PRIVATE + MAP_ANONYMOUS + MAP_GROWSDOWN,
     MAP_PRIVATE + MAP_ANONYMOUS + MAP_STACK,
     MAP_SHARED + MAP_ANONYMOUS,
     MAP_SHARED + MAP_PRIVATE + MAP_ANONYMOUS,
     MAP_PRIVATE,
     MAP_SHARED,
     MAP_ANONYMOUS}
PolicyCalls ==
    {c \in MallocCalls(PolicyLengths)
           \cup CallocCalls({0, 1, 2},
                            {1, 20000, DEFAULT_MERGE_THRESHOLD + 1, SIZE_MAX})
           \cup ReallocCalls({NULL, 16384 + 100}, {0, DEFAULT_MERGE_THRESHOLD + 1})
           \cup MmapCalls({NULL},
                          {0, 1, DEFAULT_MERGE_THRESHOLD,
                           DEFAULT_MERGE_THRESHOLD + 1, SIZE_MAX - 10},
                          PolicyMmapFlags, {-1, 3})
           \cup MremapCalls({65536},
                            {DEFAULT_MERGE_THRESHOLD,
                             DEFAULT_MERGE_THRESHOLD + 1, SIZE_MAX},
                            {0, MREMAP_MAYMOVE, MREMAP_MAYMOVE + MREMAP_FIXED},
                            {131072}) :
        WellFormed(c)}
\* what a library call made by setup() allocates
LibraryCalls ==
    MallocCalls({100, DEFAULT_MERGE_THRESHOLD + 1})
    \cup CallocCalls({1}, {DEFAULT_MERGE_THRESHOLD + 1})
    \cup MremapCalls({65536}, {DEFAULT_MERGE_THRESHOLD + 1}, {MREMAP_MAYMOVE}, {})
PolicyEnvs ==
    {NoEnv, <<>>, <<"0">>, <<"1", "0", "0">>, <<"-", "5">>, <<"a", "b", "c">>,
     <<"1", "2", "x">>, <<" ", "+", "7">>,
     <<"9", "9", "9", "9", "9", "9", "9", "9", "9">>}
PolicyAddrs ==
    [heap |-> {16384 + 100, 32768}, map |-> {65536}, madvise |-> {0, -1}]
\* sysconf(_SC_PAGESIZE)
SysPageSizes == {4096, 16384}

NextPolicy ==
    ThreadStep(1, PolicyCalls, LibraryCalls, PolicyEnvs, SysPageSizes,
               PolicyAddrs)

SpecPolicy == Init /\ [][NextPolicy]_vars

(***************************************************************************)
(* Properties.                                                             *)
(***************************************************************************)
\* the frames of the calls in progress
FramePositions == {<<t, i>> \in Threads \X (1 .. 2) : i <= Depth(t)}
FrameAt(p) == stack[p[1]][p[2]]
\* the frame has called through globals.ext_X and the call returned
Delegated(f) == f.pc \in {"merge", "return"}
\* the offset of an address inside its page
PageOffset(address, page_size) == address % page_size

\* the arguments the caller gave, in the order of the primitive's signature
\* (for mremap: the four fixed ones)
CallerArgs(c) ==
    CASE c.fn = "calloc" -> <<c.nmemb, c.size>>
      [] c.fn = "malloc" -> <<c.size>>
      [] c.fn = "mmap" -> <<c.addr, c.length, c.prot, c.flags, c.fd, c.offset>>
      [] c.fn = "mremap" -> <<c.old_address, c.old_length, c.new_length, c.flags>>
      [] c.fn = "realloc" -> <<c.addr, c.size>>

InC1Scope(c) == c.fn = "mremap" => ~HasFlag(c.flags, MREMAP_FIXED)

\* C1 (transparency): a call of calloc, malloc, mmap, realloc, or of mremap
\* without MREMAP_FIXED, has called nothing before it delegates; once it has
\* delegated it has called the primitive installed in globals exactly once,
\* with exactly the caller's arguments, and the value it is about to return
\* is the value that primitive returned, advisory or not.
C1_Transparency ==
    \A p \in FramePositions :
        LET f == FrameAt(p)
        IN InC1Scope(f.call) =>
            IF Delegated(f)
            THEN /\ f.ndeleg = 1
                 /\ f.ext = Read(p[1], f.call.fn)
                 /\ f.passed = CallerArgs(f.call)
                 /\ f.res = f.ext_res
            ELSE f.ndeleg = 0

\* a successful mmap is about to return its region after madvise() failed
C1_Witness ==
    \E p \in FramePositions :
        /\ FrameAt(p).pc = "return"
        /\ FrameAt(p).call.fn = "mmap"
        /\ FrameAt(p).ext_res \in PolicyAddrs.map
        /\ FrameAt(p).res = FrameAt(p).ext_res
        /\ Len(FrameAt(p).advice) = 1
        /\ FrameAt(p).advice[1].ret = -1

\* the frame is past lazily_setup() and did not leave it as a recursive call
PastSetup(f) ==
    f.pc \in {"call_ext", "merge", "return"} /\ f.path # "edeadlk"

\* C2 (exactly once): setup() is entered at most once, and it has been
\* entered once and setup_done is set as soon as a call is past
\* lazily_setup() other than by the recursive return, and when every call
\* made has returned.
C2_SetupExactlyOnce ==
    /\ setup_calls <= 1
    /\ \A p \in FramePositions :
        PastSetup(FrameAt(p)) => setup_calls = 1 /\ setup_done
    /\ (proc = "running" /\ ncalls > 0 /\ \A t \in Threads : Depth(t) = 0)
        => setup_calls = 1 /\ setup_done

\* two first callers raced: one ran setup(), the other passed the first look,
\* waited for the mutex and found setup_done under it
C2_Witness ==
    \E t, u \in Threads :
        /\ Depth(t) = 1 /\ Depth(u) = 1
        /\ PastSetup(stack[t][1]) /\ stack[t][1].path = "setup"
        /\ PastSetup(stack[u][1]) /\ stack[u][1].path = "recheck"

\* the shared locations, and their values as thread t reads them
Locs == DOMAIN DefaultGlobals \cup {"setup_done"}
View(t) == [l \in Locs |-> Read(t, l)]
\* the values setup() stores under the concurrent specification
ThreadThresholds ==
    {IF get_int_from_environment(e) >= 0
     THEN get_int_from_environment(e)
     ELSE DEFAULT_MERGE_THRESHOLD : e \in ThreadEnvs}
\* the call saw setup_done set, at the first look or under the mutex, and is
\* about to read globals
ObservedDone(f) ==
    f.path \in {"fast", "recheck"} /\ f.pc \in {"call_ext", "merge"}

\* C3 (visibility): a thread that has seen setup_done set reads, from then
\* on, the five resolved primitives, the real page size and the final
\* threshold.
C3_DoneImpliesSetupValues ==
    \A p \in FramePositions :
        ObservedDone(FrameAt(p)) =>
            /\ \A s \in SymbolSet : Read(p[1], s) = NextSymbol[s]
            /\ Read(p[1], "page_size") \in ThreadPageSizes
            /\ Read(p[1], "merge_threshold") \in ThreadThresholds

\* C4 (all or none): whenever a thread is about to read globals.ext_X in
\* order to call through it, the five pointers it can read are the five
\* build-time defaults or the five resolved values.
C4_AllOrNone ==
    \A p \in FramePositions :
        FrameAt(p).pc = "call_ext" =>
            \/ \A s \in SymbolSet : Read(p[1], s) = DefaultGlobals[s]
            \/ \A s \in SymbolSet : Read(p[1], s) = NextSymbol[s]

\* a step of the recursive call of thread t: its stack changes while the
\* frame of the recursive call is on it
ReentrantStep(t) ==
    stack'[t] # stack[t] /\ (Depth(t) = 2 \/ Len(stack'[t]) = 2)

\* while a recursive call is in lazily_setup() or past it: its thread owns
\* the mutex, pthread_mutex_lock() can return, and the call neither takes the
\* fast path nor gets to the re-check or to setup()
C5_ReentryReturns ==
    \A t \in Threads :
        Depth(t) = 2 =>
            /\ mutex = t
            /\ Top(t).pc \in {"lazily_setup", "lock", "call_ext", "merge", "return"}
            /\ Top(t).pc = "lock" => ENABLED lazily_setup_lock(t)
            /\ Top(t).pc \in {"call_ext", "merge", "return"}
                => Top(t).path = "edeadlk"

\* a step of a recursive call enters setup() no more, leaves the mutex with
\* its owner, stores nothing (the value of every shared location, as the
\* thread reads it, stays; no store is added to its buffer), and leaves the
\* frame of the outer call as it is
C5_ReentryInert ==
    \A t \in Threads :
        ReentrantStep(t) =>
            /\ setup_calls' = setup_calls
            /\ mutex' = mutex
            /\ View(t)' = View(t)
            /\ DOMAIN sb'[t] \subseteq DOMAIN sb[t]
            /\ stack'[t][1] = stack[t][1]

PrimitiveFailed(f) ==
    IF f.call.fn \in {"mmap", "mremap"}
    THEN f.ext_res = MAP_FAILED
    ELSE f.ext_res = NULL

\* C6 (failure): when the delegated primitive has failed, the policy issues
\* no advisory.
C6_NoAdvisoryOnFailure ==
    \A p \in FramePositions :
        (FrameAt(p).pc = "return" /\ PrimitiveFailed(FrameAt(p)))
            => FrameAt(p).advice = <<>>

\* the length and the flags the wrapper gave to the policy, and the threshold
\* and page size the thread reads
PolicyLength(f) == Wrapper(f.call).length
PolicyFlags(f) == Wrapper(f.call).flags
IsPrivate(flags) == HasFlag(flags, MAP_PRIVATE)
IsShared(flags) == HasFlag(flags, MAP_SHARED)
IsAnonymous(flags) == HasFlag(flags, MAP_ANONYMOUS)
IsStackLike(flags) == HasFlag(flags, MAP_GROWSDOWN) \/ HasFlag(flags, MAP_STACK)
UnknownOrAcceptable(flags) ==
    flags = FLAGS_UNKNOWN
    \/ (IsPrivate(flags) /\ IsAnonymous(flags) /\ ~IsStackLike(flags))
\* the extended length: the length plus the offset of the address in its page
ExtendedLength(t, f) ==
    PolicyLength(f) + PageOffset(f.res, Read(t, "page_size"))
\* advisory if and only if L > T
AdvisedIffAbove(f, L, T) ==
    /\ L > T => Len(f.advice) = 1
    /\ L <= T => Len(f.advice) = 0

\* C7 (threshold boundary): for a non-null returned address and flags
\* unknown or acceptable, the threshold T is >= 0, and exactly one advisory
\* is issued if the extended length L exceeds T and none if L <= T.
C7_ThresholdBoundary ==
    \A p \in FramePositions :
        LET f == FrameAt(p)
        IN (f.pc = "return" /\ f.res # NULL /\ UnknownOrAcceptable(PolicyFlags(f)))
            => /\ Read(p[1], "merge_threshold") >= 0
               /\ AdvisedIffAbove(f, ExtendedLength(p[1], f),
                                  Read(p[1], "merge_threshold"))

\* The boundary where the sum does not leave size_t: the same statement with
\* the extended length taken modulo 2^SIZE_BITS, as the code computes it.
ThresholdBoundaryInSizeT ==
    \A p \in FramePositions :
        LET f == FrameAt(p)
        IN (f.pc = "return" /\ f.res # NULL /\ UnknownOrAcceptable(PolicyFlags(f)))
            => /\ Read(p[1], "merge_threshold") >= 0
               /\ AdvisedIffAbove(f, ExtendedLength(p[1], f) % SIZE_MOD,
                                  Read(p[1], "merge_threshold"))

\* a call returns a region whose extended length is the threshold plus one,
\* advised, with part of that length being the offset in the page
ThresholdBoundaryReached ==
    \E p \in FramePositions :
        LET f == FrameAt(p)
        IN /\ f.pc = "return" /\ f.res # NULL
           /\ PageOffset(f.res, Read(p[1], "page_size")) > 0
           /\ ExtendedLength(p[1], f) = Read(p[1], "merge_threshold") + 1
           /\ Len(f.advice) = 1

\* the mmap call succeeded, its flags are known and its extended length is
\* above the threshold
BigKnownMapping(t, f) ==
    /\ f.pc = "return" /\ f.call.fn = "mmap"
    /\ f.ext_res # MAP_FAILED
    /\ f.call.flags # FLAGS_UNKNOWN
    /\ ExtendedLength(t, f) > Read(t, "merge_threshold")

\* C8 (flag filter): for a successful mmap above the threshold with known
\* flags, an advisory is issued if and only if the flags have MAP_PRIVATE and
\* MAP_ANONYMOUS and neither MAP_GROWSDOWN nor MAP_STACK.
C8_FlagFilter ==
    \A p \in FramePositions :
        LET f == FrameAt(p)
        IN BigKnownMapping(p[1], f) =>
            (Len(f.advice) = 1
             <=> (IsPrivate(f.call.flags) /\ IsAnonymous(f.call.flags)
                  /\ ~IsStackLike(f.call.flags)))

\* a successful private anonymous MAP_STACK mapping above the threshold
\* returns without an advisory
C8_Witness ==
    \E p \in FramePositions :
        /\ BigKnownMapping(p[1], FrameAt(p))
        /\ FrameAt(p).call.flags = MAP_PRIVATE + MAP_ANONYMOUS + MAP_STACK
        /\ FrameAt(p).advice = <<>>

\* C9 (shared or file-backed): an mmap call whose flags have MAP_SHARED, or
\* have no MAP_ANONYMOUS, gets no advisory.
C9_NoAdvisoryForShared ==
    \A p \in FramePositions :
        LET f == FrameAt(p)
        IN (f.pc = "return" /\ f.call.fn = "mmap"
            /\ (IsShared(f.call.flags) \/ ~IsAnonymous(f.call.flags)))
            => f.advice = <<>>

\* a successful mmap with both the MAP_SHARED and the MAP_PRIVATE bit (a
\* shared mapping where the kernel has MAP_SHARED_VALIDATE) returns advised
SharedMappingAdvised ==
    \E p \in FramePositions :
        LET f == FrameAt(p)
        IN /\ f.pc = "return" /\ f.call.fn = "mmap"
           /\ f.ext_res # MAP_FAILED
           /\ IsShared(f.call.flags)
           /\ Len(f.advice) = 1

\* setup() is resolving the symbols, or xdlsym() has called error()
Resolving ==
    \E t \in Threads :
        Depth(t) >= 1 /\ stack[t][1].pc \in {"xdlsym", "error"}

\* C10 (fatal resolution failure): as long as setup() is resolving, and when
\* the process has exited in error(), setup_done is not set, no field of
\* globals has been stored to, in memory or in a store buffer, and every call
\* that has delegated went through a build-time default.
C10_FailureLeavesDefaults ==
    (Resolving \/ proc = "exited") =>
        /\ Resolving
        /\ ~setup_done
        /\ globals = DefaultGlobals
        /\ \A t \in Threads : DOMAIN sb[t] = {}
        /\ \A p \in FramePositions :
            FrameAt(p).ndeleg > 0
                => FrameAt(p).ext = DefaultGlobals[FrameAt(p).call.fn]

\* the process has exited in error() after some symbols had resolved and a
\* recursive call had been made
C10_Witness ==
    /\ proc = "exited"
    /\ nreentry > 0
    /\ \E t \in Threads :
        Depth(t) = 1 /\ stack[t][1].dl["calloc"] = NextSymbol["calloc"]

\* the advisory of frame f starts at the largest multiple of the page size p
\* that is <= the address a the primitive returned
StartsAtPage(f, p) ==
    /\ f.advice[1].addr % p = 0
    /\ f.advice[1].addr <= f.res
    /\ f.res - f.advice[1].addr < p

\* C11 (page rounding): when an advisory is issued for address a and length
\* n under page size p, it starts at the largest multiple of p that is <= a
\* and its length is n + (a - start), so that start + length = a + n.
C11_PageRounding ==
    \A p \in FramePositions :
        LET f == FrameAt(p)
        IN (f.pc = "return" /\ Len(f.advice) = 1) =>
            /\ StartsAtPage(f, Read(p[1], "page_size"))
            /\ f.advice[1].length = PolicyLength(f) + (f.res - f.advice[1].addr)
            /\ f.advice[1].addr + f.advice[1].length = f.res + PolicyLength(f)

\* The rounding where the sum does not leave size_t: the start is as stated,
\* and the length is n + (a - start) modulo 2^SIZE_BITS, as the code computes
\* it.
PageRoundingInSizeT ==
    \A p \in FramePositions :
        LET f == FrameAt(p)
        IN (f.pc = "return" /\ Len(f.advice) = 1) =>
            /\ StartsAtPage(f, Read(p[1], "page_size"))
            /\ f.advice[1].length
                = (PolicyLength(f) + (f.res - f.advice[1].addr)) % SIZE_MOD

\* malloc(5000) returned an address 100 bytes into a 4096-byte page and the
\* advisory starts at the page with length 5100
PageRoundingReached ==
    \E p \in FramePositions :
        LET f == FrameAt(p)
        IN /\ f.pc = "return" /\ f.call.fn = "malloc" /\ f.call.size = 5000
           /\ Read(p[1], "page_size") = 4096
           /\ f.res % 4096 = 100
           /\ f.advice # <<>>
           /\ f.advice[1].addr = f.res - 100
           /\ f.advice[1].length = 5100

\* the string is a base-10 non-negative integer: digits only, at least one,
\* after the white space and the "+" that strtol() takes as part of a number
IsNonNegativeInteger(s) ==
    LET i0 == SkipSpace(s, 1)
        i1 == IF i0 <= Len(s) /\ s[i0] = "+" THEN i0 + 1 ELSE i0
    IN /\ s # NoEnv
       /\ i1 <= Len(s)
       /\ \A i \in i1 .. Len(s) : IsDigit(s[i])

\* the frame ran setup() and is past get_int_from_environment()
PastGetenv(f) ==
    f.path = "setup"
    /\ f.pc \in {"activate", "set_done", "unlock", "call_ext", "merge", "return"}

\* C12 (threshold fallback): when the variable is absent or its value is not
\* a base-10 non-negative integer, the threshold after get_int_from_environment
\* is the built-in default and setup() goes on; the threshold is >= 0 in
\* every state, in memory and as every thread reads it.
C12_ThresholdFallback ==
    /\ globals.merge_threshold >= 0
    /\ \A t \in Threads : Read(t, "merge_threshold") >= 0
    /\ \A t \in Threads :
        (Depth(t) >= 1 /\ PastGetenv(stack[t][1])
         /\ ~IsNonNegativeInteger(stack[t][1].var_string))
            => Read(t, "merge_threshold") = DEFAULT_MERGE_THRESHOLD

\* The fallback for the values strtol() rejects: absent, or with a character
\* left unread, or negative; and a number above INT_MAX gives INT_MAX.
ThresholdFallbackOfStrtol ==
    \A t \in Threads :
        (Depth(t) >= 1 /\ PastGetenv(stack[t][1])) =>
            LET v == stack[t][1].var_string
                T == Read(t, "merge_threshold")
            IN /\ T >= 0 /\ T <= INT_MAX
               /\ (v = NoEnv \/ (v # <<>> /\ ~IsNonNegativeInteger(v)))
                    => T = DEFAULT_MERGE_THRESHOLD
               /\ v = <<"1", "0", "0">> => T = 100
               /\ v = <<"9", "9", "9", "9", "9", "9", "9", "9", "9">>
                    => T = INT_MAX

\* setup() has completed after the variable held "-5", with the default
\* threshold
ThresholdFallbackReached ==
    \E t \in Threads :
        /\ Depth(t) = 1 /\ stack[t][1].path = "setup"
        /\ stack[t][1].pc = "call_ext"
        /\ stack[t][1].var_string = <<"-", "5">>
        /\ globals.merge_threshold = DEFAULT_MERGE_THRESHOLD
        /\ setup_done

\* C13 (variadic remap): mremap() reads the variadic list, once, if and only
\* if the flags have MREMAP_FIXED; the real primitive then receives the four
\* fixed arguments and that target address, and otherwise the four fixed
\* arguments only.
C13_VariadicRemap ==
    \A p \in FramePositions :
        LET f == FrameAt(p)
        IN f.call.fn = "mremap" =>
            IF ~Delegated(f)
            THEN f.va_read = 0 /\ f.ndeleg = 0
            ELSE IF HasFlag(f.call.flags, MREMAP_FIXED)
                 THEN /\ f.va_read = 1
                      /\ f.passed = CallerArgs(f.call) \o <<f.call.va[1]>>
                 ELSE /\ f.va_read = 0
                      /\ f.passed = CallerArgs(f.call)

\* a mremap with MREMAP_MAYMOVE | MREMAP_FIXED has passed the caller's
\* target address as the fifth argument
C13_Witness ==
    \E p \in FramePositions :
        LET f == FrameAt(p)
        IN /\ f.call.fn = "mremap" /\ Delegated(f)
           /\ f.call.flags = MREMAP_MAYMOVE + MREMAP_FIXED
           /\ Len(f.passed) = 5
           /\ f.passed[5] = 131072
           /\ f.va_read = 1

\* C14 (safe delegation): the pointer an entry point is about to call
\* through is never null, and the process never ends in a call through a
\* null pointer.
C14_SafeDelegation ==
    /\ proc # "crashed"
    /\ \A p \in FramePositions :
        FrameAt(p).pc = "call_ext"
            => Read(p[1], FrameAt(p).call.fn) # NULL_FN

\* The same for the four entry points that have a build-time default.
SafeDelegationButMremap ==
    \A p \in FramePositions :
        (FrameAt(p).pc = "call_ext" /\ FrameAt(p).call.fn # "mremap")
            => Read(p[1], FrameAt(p).call.fn) # NULL_FN

\* a recursive calloc has delegated through the build-time default while
\* setup() was running
DefaultDelegationReached ==
    \E t \in Threads :
        /\ Depth(t) = 2
        /\ Top(t).call.fn = "calloc" /\ Delegated(Top(t))
        /\ Top(t).ext = DefaultGlobals["calloc"]

\* the primitive of frame f returned a region
PrimitiveSucceeded(f) == Delegated(f) /\ ~PrimitiveFailed(f)

\* C15 (length of the region): the length a wrapper gives to the policy is
\* the byte length of the region the primitive returned (nmemb * size for
\* calloc), so that a successful calloc whose region plus page offset exceeds
\* the threshold returns with an advisory that covers the region.
C15_PolicyLengthIsRegion ==
    \A p \in FramePositions :
        LET f == FrameAt(p)
        IN PrimitiveSucceeded(f) =>
            /\ PolicyLength(f) = RegionBytes(f.call)
            /\ (f.pc = "return" /\ f.call.fn = "calloc"
                /\ RegionBytes(f.call) + PageOffset(f.res, Read(p[1], "page_size"))
                    > Read(p[1], "merge_threshold"))
                => /\ Len(f.advice) = 1
                   /\ f.advice[1].addr <= f.res
                   /\ f.advice[1].addr + f.advice[1].length
                        >= f.res + RegionBytes(f.call)

\* The same for the four wrappers other than calloc.
PolicyLengthIsRegionButCalloc ==
    \A p \in FramePositions :
        LET f == FrameAt(p)
        IN (PrimitiveSucceeded(f) /\ f.call.fn # "calloc")
            => PolicyLength(f) = RegionBytes(f.call)

\* calloc(2, 20000) returns a region of 40000 bytes under the threshold
\* 32768 without an advisory
CallocRegionNotAdvised ==
    \E p \in FramePositions :
        LET f == FrameAt(p)
        IN /\ f.pc = "return" /\ f.call.fn = "calloc"
           /\ f.call.nmemb = 2 /\ f.call.size = 20000
           /\ f.res # NULL
           /\ Read(p[1], "merge_threshold") = DEFAULT_MERGE_THRESHOLD
           /\ f.advice = <<>>

\* C16 (failure pass-through): a call whose primitive failed returns the
\* primitive's failure value with the errno the primitive left.
C16_FailurePassThrough ==
    \A p \in FramePositions :
        LET f == FrameAt(p)
        IN (Delegated(f) /\ PrimitiveFailed(f)) =>
            /\ f.res = FailureResult(f.call)
            /\ f.errno = ERRNO_OF_PRIMITIVE

\* The same for the primitives that fail with NULL.
NullFailurePassThrough ==
    \A p \in FramePositions :
        LET f == FrameAt(p)
        IN (Delegated(f) /\ PrimitiveFailed(f)
            /\ f.call.fn \in {"calloc", "malloc", "realloc"}) =>
            /\ f.res = NULL
            /\ f.errno = ERRNO_OF_PRIMITIVE

\* a failed malloc above the threshold returns NULL and the primitive's errno
NullFailureReached ==
    \E p \in FramePositions :
        LET f == FrameAt(p)
        IN /\ f.pc = "return" /\ f.call.fn = "malloc"
           /\ f.call.size > Read(p[1], "merge_threshold")
           /\ f.ext_res = NULL /\ f.res = NULL
           /\ f.errno = ERRNO_OF_PRIMITIVE

\* setup_done = true has been executed: the store is in memory or on its way
DoneWritten ==
    setup_done \/ \E t \in Threads : "setup_done" \in DOMAIN sb[t]

\* a step writes no shared location: no thread issues a store, and memory
\* changes only in that a store issued before reaches it
WritesNothing ==
    /\ \A t \in Threads :
        \A l \in DOMAIN sb'[t] : l \in DOMAIN sb[t] /\ sb'[t][l] = sb[t][l]
    /\ \/ globals' = globals /\ setup_done' = setup_done
       \/ \A l \in Locs :
            Mem(l)' # Mem(l)
                => \E t \in Threads : l \in DOMAIN sb[t] /\ sb[t][l] = Mem(l)'

\* no step writes a shared location once setup_done = true has been written,
\* and setup_done = true stays written
FrozenStep == DoneWritten => (WritesNothing /\ DoneWritten')

\* C17 (frozen after initialization): once setup_done has been set, it stays
\* set and no later step of any call writes a resolved primitive, the page
\* size or the threshold: each keeps the value setup() gave it.
C17_FrozenAfterSetup == [][FrozenStep]_vars

\* after setup_done was set a second call took the fast path, evaluated the
\* policy and is about to return, and memory holds what setup() wrote
C17_Witness ==
    /\ setup_done
    /\ \A s \in SymbolSet : globals[s] = NextSymbol[s]
    /\ globals.page_size \in ThreadPageSizes
    /\ globals.merge_threshold \in ThreadThresholds
    /\ \E p \in FramePositions :
        /\ FrameAt(p).path = "fast" /\ FrameAt(p).pc = "return"
        /\ Len(FrameAt(p).advice) = 1

\* a call that looks at setup_done when it is set in memory leaves
\* lazily_setup() at once, on the fast path, and the mutex stays as it is
FastPathStep ==
    \A t \in Threads :
        (Depth(t) >= 1 /\ Top(t).pc = "lazily_setup" /\ setup_done
         /\ stack'[t] # stack[t])
            => /\ Len(stack'[t]) = Depth(t)
               /\ stack'[t][Depth(t)].pc = "call_ext"
               /\ stack'[t][Depth(t)].path = "fast"
               /\ mutex' = mutex

\* a call takes the mutex only if setup_done was not set in memory when it
\* looked: whoever owns the mutex or waits for it is a call that began
\* before setup_done was set
LockStep ==
    \A t \in Threads :
        (mutex' = t /\ mutex # t) => Top(t).pc = "lock" /\ Top(t).path = ""

\* C18 (lock-free after initialization): setup_done stays set in memory once
\* it is, and a call of lazily_setup() that begins after that returns on the
\* fast path and never gets to pthread_mutex_lock().
C18_LockFreeAfterSetup ==
    [][(setup_done => setup_done') /\ FastPathStep /\ LockStep]_vars

\* a call that began after setup_done was set in memory is past
\* lazily_setup() on the fast path while the call that ran setup() still
\* owns the mutex
C18_Witness ==
    \E t, u \in Threads :
        /\ Depth(t) = 1 /\ Depth(u) = 1
        /\ stack[t][1].pc = "call_ext" /\ stack[t][1].path = "fast"
        /\ mutex = u /\ stack[u][1].pc = "unlock"

\* thread t is inside lazily_setup(), setup() included
LazilySetupPcs ==
    {"lazily_setup", "lock", "recheck", "xdlsym", "error", "sysconf", "getenv",
     "activate", "set_done", "unlock"}
InLazilySetup(t) ==
    \E i \in 1 .. Depth(t) : stack[t][i].pc \in LazilySetupPcs
\* setup() does not terminate: the process has ended while a thread was
\* inside setup()
SetupPcs == {"xdlsym", "error", "sysconf", "getenv", "activate"}
SetupAborted ==
    /\ proc # "running"
    /\ \E t \in Threads : Depth(t) >= 1 /\ stack[t][1].pc \in SetupPcs
\* every call made has returned
AllReturned ==
    proc = "running" /\ ncalls > 0 /\ \A t \in Threads : Depth(t) = 0

\* C19 (liveness): when setup() terminates and scheduling is fair, every
\* thread that is inside lazily_setup() eventually leaves it, the owner of
\* the mutex eventually releases it, and when all calls have returned the
\* mutex is free and setup_done is set.
C19_InitializerLiveness ==
    /\ \A t \in Threads :
        InLazilySetup(t) ~> (~InLazilySetup(t) \/ SetupAborted)
    /\ \A t \in Threads : (mutex = t) ~> (mutex # t \/ SetupAborted)
    /\ [](AllReturned => mutex = 0 /\ setup_done)

\* The same as long as the process lives: the calls return and the mutex is
\* released unless the process has ended.
LivenessWhileRunning ==
    /\ \A t \in Threads :
        InLazilySetup(t) ~> (~InLazilySetup(t) \/ proc # "running")
    /\ \A t \in Threads : (mutex = t) ~> (mutex # t \/ proc # "running")
    /\ [](AllReturned => mutex = 0 /\ setup_done)

\* the process has ended in a call through a null pointer while the thread
\* that ran setup() had not released the mutex
InitializerCutShort ==
    /\ proc = "crashed"
    /\ \E t \in Threads :
        mutex = t /\ Depth(t) = 1 /\ stack[t][1].pc \in {"set_done", "unlock"}

====
